---------------------------- MODULE Spec2Model ----------------------------
(***************************************************************************)
(* Session and memory reconciliation layer of the AURA / Nova tutor client *)
(*                                                                         *)
(*   ApiService          src/src/services/api.ts                           *)
(*   AuthProvider        src/src/pages/Login.tsx (AuthContext part)        *)
(*   Dashboard           src/unnamed/part_008                              *)
(*   AIChat              src/unnamed/part_002                              *)
(*   MemoryVisualization src/src_backup/components/MemoryVisualization.jsx *)
(*   security utilities  src/unnamed/part_006                              *)
(*                                                                         *)
(* JavaScript runs every handler to its next await without interleaving,   *)
(* so one action is one such run: the part of a handler up to an await, or *)
(* the part that resumes when the awaited request settles.                 *)
(***************************************************************************)
EXTENDS Integers, Sequences, FiniteSets, TLC

VARIABLES
  \* ---- AuthProvider (Login.tsx 260-364) and the browser's localStorage
  phase,        \* "starting": rendered, mount effect not yet run; "mounted"
  user,         \* useState<User | null>
  token,        \* useState<string | null>
  isLoading,    \* useState(false)
  storage,      \* localStorage: a function from the keys present to values
  authReqs,     \* login/signup/googleLogin calls suspended at their await
  lastOp,       \* name of the session operation that ran last
  lastResult,   \* what the gateway call of the last resumed operation gave
  atRestart     \* the session held in memory when the page was last reloaded

authVars == <<phase, user, token, isLoading, storage, authReqs, lastOp,
              lastResult, atRestart>>

VARIABLES
  \* ---- rateLimit (part_006 35-46)
  attempts,     \* rateLimit.attempts: Map from key to array of timestamps
  now,          \* the clock read by Date.now(), in milliseconds
  rlMax,        \* the max argument the call sites pass
  rlWindow,     \* the windowMs argument the call sites pass
  log,          \* every check call so far: key, time and what it returned
  ticks,        \* number of clock advances so far
  \* ---- the forms that use the security utilities (part_005, part_006 1-8)
  guard         \* the last input handled: what was given and what came of it

rateVars == <<attempts, now, rlMax, rlWindow, log, ticks, guard>>

VARIABLES
  \* ---- which conversation surface is on screen, and what they share
  surface,            \* "Dashboard", "AIChat" or "MemoryVisualization"
  sendCount,          \* number of handleSendMessage calls that passed the guard
  lastChat,           \* what the last settled chat request gave its caller
  \* ---- Dashboard (part_008 500-703)
  dashPhase,          \* "rendered": effects not yet run; "ready"; "gone"
  chatMessages,       \* useState<ChatMessage[]>([])
  memories,           \* useState<Memory[]>([])
  isSendingMessage,   \* useState(false): the state React holds
  seenSending,        \* isSendingMessage as the rendered handler and input see it
  isLoadingMemories,  \* useState(false)
  sends,              \* handleSendMessage calls suspended at an await
  fetches,            \* loadMemories calls suspended at their await, per user id
  \* ---- AIChat (part_002)
  messages,           \* useState([greeting])
  aiIsLoading,        \* isLoading: the state React holds
  aiSeenLoading,      \* isLoading as the rendered handler and input see it
  isTyping,           \* useState(false)
  aiReqs,             \* handleSendMessage calls suspended at getAIResponse
  aiTimers,           \* setTimeout callbacks not yet run, in the order set
  \* ---- MemoryVisualization (MemoryVisualization.jsx 3-43)
  mvMemories,         \* useState([])
  mvIsLoading,        \* useState(true)
  mvFetches           \* fetchMemories calls suspended at an await

sharedVars == <<surface, sendCount, lastChat>>

dashVars == <<dashPhase, chatMessages, memories, isSendingMessage, seenSending,
              isLoadingMemories, sends, fetches>>

chatVars == <<messages, aiIsLoading, aiSeenLoading, isTyping, aiReqs, aiTimers>>

mvVars == <<mvMemories, mvIsLoading, mvFetches>>

surfaceVars == <<sharedVars, dashVars, chatVars, mvVars>>

VARIABLES
  \* ---- ApiService (api.ts 59-235)
  gateway       \* the last call of a method: what went to fetch, what came back

gatewayVars == <<gateway>>

vars == <<authVars, rateVars, surfaceVars, gatewayVars>>

----------------------------------------------------------------------------
(* Values *)

NULL == [null |-> TRUE]
NullToken == "<null>"

U1 == [id |-> "u1", email |-> "ann@x.io", name |-> "Ann"]
U2 == [id |-> "u2", email |-> "bob@x.io", name |-> "Bob"]
Users == {U1, U2}
Tokens == {"t1", "t2"}

(* Number of sign-in, sign-up or federated sign-in calls that may be        *)
(* suspended at their await at the same time.                               *)
MaxAuthInFlight == 2

----------------------------------------------------------------------------
(* localStorage *)

EmptyStore == [k \in {} |-> TRUE]

setItem(s, k, v) == [x \in DOMAIN s \cup {k} |-> IF x = k THEN v ELSE s[x]]

removeItem(s, k) == [x \in DOMAIN s \ {k} |-> s[x]]

clear(s) == EmptyStore

hasItem(s, k) == k \in DOMAIN s

(* A serializer that writes the email where the name belongs.             *)
JSONstringifyWrongField(u) ==
  <<"{", "id", u.id, "email", u.email, "name", u.email, "}">>

(* JSON.stringify(user): the text is modelled as its sequence of tokens.   *)
JSONstringify(u) ==
  <<"{", "id", u.id, "email", u.email, "name", u.name, "}">>

(* JSON.parse either gives the object back or throws.                      *)
JSONparses(s) ==
  /\ Len(s) = 8
  /\ s[1] = "{" /\ s[2] = "id" /\ s[4] = "email" /\ s[6] = "name" /\ s[8] = "}"

JSONparse(s) == [id |-> s[3], email |-> s[5], name |-> s[7]]

----------------------------------------------------------------------------
(* ApiService: what fetch can give, and what each method makes of it *)

TransportFailure == [t |-> "transport", ok |-> FALSE, statusText |-> "", body |-> NULL]

HttpError(st) == [t |-> "http", ok |-> FALSE, statusText |-> st, body |-> NULL]

HttpOk(b) == [t |-> "http", ok |-> TRUE, statusText |-> "OK", body |-> b]

StatusTexts == {"Unauthorized", "Internal Server Error"}

Throw(e) == [thrown |-> TRUE, error |-> e, value |-> NULL]

Return(v) == [thrown |-> FALSE, error |-> <<>>, value |-> v]

(* private async request<T>: fetch's rejection propagates, a response that *)
(* is not ok is thrown as an Error, otherwise the parsed body is returned. *)
request(outcome) ==
  IF outcome.t = "transport" THEN Throw(<<"Failed to fetch">>)
  ELSE IF ~outcome.ok
       THEN Throw(<<"API request failed: ", outcome.statusText>>)
       ELSE Return(outcome.body)

AuthOkBody(u, k) == [success |-> TRUE, message |-> "", user |-> u, token |-> k]

AuthFailBody(m) == [success |-> FALSE, message |-> m, user |-> NULL, token |-> NullToken]

AuthOutcomes ==
  {TransportFailure}
    \cup {HttpError(st) : st \in StatusTexts}
    \cup {HttpOk(AuthFailBody(m)) : m \in {"", "Invalid credentials"}}
    \cup {HttpOk(AuthOkBody(u, k)) : u \in Users, k \in Tokens}

authResult(outcome, fallback) ==
  LET r == request(outcome) IN
  IF r.thrown THEN r
  ELSE IF ~r.value.success
       THEN Throw(IF r.value.message # "" THEN <<r.value.message>> ELSE <<fallback>>)
       ELSE Return([user |-> r.value.user, token |-> r.value.token])

ApiService_login(outcome) == authResult(outcome, "Login failed")

ApiService_signup(outcome) == authResult(outcome, "Signup failed")

ApiService_googleAuth(outcome) == authResult(outcome, "Google authentication failed")

----------------------------------------------------------------------------
(* AuthProvider *)

isAuthenticated == user # NULL /\ token # NullToken /\ token # ""

InitAuth ==
  /\ phase = "starting"
  /\ user = NULL
  /\ token = NullToken
  /\ isLoading = FALSE
  /\ storage \in {EmptyStore}
        \cup {setItem(setItem(EmptyStore, "nova_user", JSONstringify(u)), "nova_token", k) :
                u \in Users, k \in Tokens}
  /\ authReqs = {}
  /\ lastOp = "none"
  /\ lastResult = Return(NULL)
  /\ atRestart = [user |-> NULL, token |-> NullToken, stored |-> FALSE, partial |-> FALSE]

(* Exactly one of the two entries is present.                              *)
PartialPair(s) == hasItem(s, "nova_user") # hasItem(s, "nova_token")

(* What localStorage can hold when the page is opened: nothing, a pair     *)
(* written by an earlier sign-in, or a single entry (localStorage belongs  *)
(* to the origin: another script or the user can write or remove a key).   *)
StartStores ==
  {EmptyStore}
    \cup {setItem(setItem(EmptyStore, "nova_user", JSONstringify(u)), "nova_token", k) :
            u \in Users, k \in Tokens}
    \cup {setItem(EmptyStore, "nova_user", JSONstringify(u)) : u \in Users}
    \cup {setItem(EmptyStore, "nova_token", k) : k \in Tokens}

InitStart ==
  /\ phase = "starting"
  /\ user = NULL
  /\ token = NullToken
  /\ isLoading = FALSE
  /\ storage \in StartStores
  /\ authReqs = {}
  /\ lastOp = "none"
  /\ lastResult = Return(NULL)
  /\ atRestart = [user |-> NULL, token |-> NullToken, stored |-> FALSE,
                  partial |-> PartialPair(storage)]

(* A mount effect that takes whatever entry it finds.                      *)
MountEffectTakesPartial(s) ==
  IF hasItem(s, "nova_user") /\ JSONparses(s["nova_user"])
  THEN [user |-> JSONparse(s["nova_user"]),
        token |-> IF hasItem(s, "nova_token") THEN s["nova_token"] ELSE NullToken,
        storage |-> s, set |-> TRUE]
  ELSE [user |-> NULL, token |-> NullToken, storage |-> s, set |-> FALSE]

(* useEffect(() => {...}, []): runs once after the first render.           *)
MountEffect(s) ==
  LET cleared == clear(s) IN
  IF hasItem(cleared, "nova_user") /\ hasItem(cleared, "nova_token")
  THEN IF JSONparses(cleared["nova_user"])
       THEN [user |-> JSONparse(cleared["nova_user"]),
             token |-> cleared["nova_token"], storage |-> cleared, set |-> TRUE]
       ELSE [user |-> NULL, token |-> NullToken, set |-> FALSE,
             storage |-> removeItem(removeItem(cleared, "nova_user"), "nova_token")]
  ELSE [user |-> NULL, token |-> NullToken, storage |-> cleared, set |-> FALSE]

Mount ==
  /\ phase = "starting"
  /\ LET m == MountEffect(storage) IN
       /\ storage' = m.storage
       /\ IF m.set THEN user' = m.user /\ token' = m.token
                   ELSE UNCHANGED <<user, token>>
  /\ phase' = "mounted"
  /\ lastOp' = "mount"
  /\ UNCHANGED <<isLoading, authReqs, lastResult, atRestart>>

FreeSlots == (1 .. MaxAuthInFlight) \ {r.slot : r \in authReqs}

(* The part of login/signup/googleLogin before the await.                  *)
AuthBegin(op) ==
  /\ phase = "mounted"
  /\ FreeSlots # {}
  /\ isLoading' = TRUE
  /\ authReqs' = authReqs \cup {[slot |-> CHOOSE s \in FreeSlots : TRUE, op |-> op]}
  /\ lastOp' = op
  /\ UNCHANGED <<phase, user, token, storage, lastResult, atRestart>>

(* A try block that forgets the second setItem.                           *)
StoreSessionUserOnly(s, res) ==
  setItem(s, "nova_user", JSONstringify(res.user))

(* What the try block writes once the gateway call has returned.           *)
StoreSession(s, res) ==
  setItem(setItem(s, "nova_user", JSONstringify(res.user)), "nova_token", res.token)

(* A continuation that sets the state and writes nothing.                  *)
AuthResumeMemoryOnly(req, res) ==
  /\ req \in authReqs
  /\ authReqs' = authReqs \ {req}
  /\ IF res.thrown
     THEN UNCHANGED <<user, token>>
     ELSE /\ user' = res.value.user
          /\ token' = res.value.token
  /\ isLoading' = FALSE
  /\ lastResult' = res
  /\ lastOp' = IF res.thrown THEN "rejected" ELSE "resolved"
  /\ UNCHANGED <<phase, storage, atRestart>>

(* The part after the await: try / catch (rethrow) / finally.              *)
AuthResume(req, res) ==
  /\ req \in authReqs
  /\ authReqs' = authReqs \ {req}
  /\ IF res.thrown
     THEN UNCHANGED <<user, token, storage>>
     ELSE /\ user' = res.value.user
          /\ token' = res.value.token
          /\ storage' = StoreSession(storage, res.value)
  /\ isLoading' = FALSE
  /\ lastResult' = res
  /\ lastOp' = IF res.thrown THEN "rejected" ELSE "resolved"
  /\ UNCHANGED <<phase, atRestart>>

login == AuthBegin("login")

signup == AuthBegin("signup")

googleLogin == AuthBegin("googleLogin")

loginResume ==
  \E req \in authReqs, o \in AuthOutcomes :
    req.op = "login" /\ AuthResume(req, ApiService_login(o))

signupResume ==
  \E req \in authReqs, o \in AuthOutcomes :
    req.op = "signup" /\ AuthResume(req, ApiService_signup(o))

googleLoginResume ==
  \E req \in authReqs, o \in AuthOutcomes :
    req.op = "googleLogin" /\ AuthResume(req, ApiService_googleAuth(o))

(* A logout that removes the identity and leaves the credential.           *)
LogoutStoreUserOnly(s) == removeItem(s, "nova_user")

LogoutStore(s) == clear(removeItem(removeItem(s, "nova_user"), "nova_token"))

logout ==
  /\ phase = "mounted"
  /\ user' = NULL
  /\ token' = NullToken
  /\ storage' = LogoutStore(storage)
  /\ lastOp' = "logout"
  /\ UNCHANGED <<phase, isLoading, authReqs, lastResult, atRestart>>

(* A page reload: the JavaScript heap and every pending request are gone,  *)
(* localStorage stays, AuthProvider is constructed again.                  *)
Reload ==
  /\ phase = "mounted"
  /\ atRestart' = [user |-> user, token |-> token,
                   stored |-> hasItem(storage, "nova_user") /\ hasItem(storage, "nova_token"),
                   partial |-> PartialPair(storage)]
  /\ phase' = "starting"
  /\ user' = NULL
  /\ token' = NullToken
  /\ isLoading' = FALSE
  /\ authReqs' = {}
  /\ lastOp' = "reload"
  /\ lastResult' = Return(NULL)
  /\ UNCHANGED storage

AuthIdle ==
  /\ phase = "mounted"
  /\ user = NULL
  /\ token = NullToken
  /\ isLoading = FALSE
  /\ storage = EmptyStore
  /\ authReqs = {}
  /\ lastOp = "none"
  /\ lastResult = Return(NULL)
  /\ atRestart = [user |-> NULL, token |-> NullToken, stored |-> FALSE, partial |-> FALSE]

----------------------------------------------------------------------------
(* rateLimit: the client-side rate limiter *)

DefaultMax == 5
DefaultWindowMs == 60000

(* A second pair of arguments, small enough for a whole window to fill,    *)
(* expire and fill again within the bound on calls.                        *)
SmallMax == 2
SmallWindowMs == 3

Keys == {"ann@x.io", "bob@x.io"}

(* Bounds: calls to check, and advances of the clock, in one behaviour.    *)
MaxCalls == 7
MaxTicks == 2

(* arr.filter((t) => now - t < windowMs) *)
recent(arr, n, windowMs) ==
  LET keep(t) == n - t < windowMs IN SelectSeq(arr, keep)

(* A check that refuses only when more than max timestamps are recent.    *)
checkOffByOne(map, key, n, max, windowMs) ==
  LET arr == IF key \in DOMAIN map THEN map[key] ELSE <<>>
      rec == recent(arr, n, windowMs)
  IN IF Len(rec) > max
     THEN [ret |-> FALSE, map |-> map]
     ELSE [ret |-> TRUE,
           map |-> [k \in DOMAIN map \cup {key} |->
                      IF k = key THEN Append(rec, n) ELSE map[k]]]

(* A check that stores the time of a refused call as well.                 *)
checkRecordingRefusals(map, key, n, max, windowMs) ==
  LET arr == IF key \in DOMAIN map THEN map[key] ELSE <<>>
      rec == recent(arr, n, windowMs)
  IN [ret |-> Len(rec) < max,
      map |-> [k \in DOMAIN map \cup {key} |->
                 IF k = key THEN Append(rec, n) ELSE map[k]]]

(* rateLimit.check(key, max, windowMs): the value returned and the map     *)
(* after the call.                                                         *)
check(map, key, n, max, windowMs) ==
  LET arr == IF key \in DOMAIN map THEN map[key] ELSE <<>>
      rec == recent(arr, n, windowMs)
  IN IF Len(rec) >= max
     THEN [ret |-> FALSE, map |-> map]
     ELSE [ret |-> TRUE,
           map |-> [k \in DOMAIN map \cup {key} |->
                      IF k = key THEN Append(rec, n) ELSE map[k]]]

(* No input handled yet.                                                   *)
NoInput ==
  [op |-> "none", name |-> <<>>, email |-> <<>>, password |-> <<>>, confirm |-> <<>>,
   text |-> <<>>, clean |-> <<>>, result |-> "none"]

RateIdle ==
  /\ attempts = EmptyStore
  /\ now = 0
  /\ rlMax = DefaultMax
  /\ rlWindow = DefaultWindowMs
  /\ log = <<>>
  /\ ticks = 0
  /\ guard = NoInput

InitRateLimit ==
  /\ attempts = EmptyStore
  /\ now = 0
  /\ \E a \in {<<DefaultMax, DefaultWindowMs>>, <<SmallMax, SmallWindowMs>>} :
       rlMax = a[1] /\ rlWindow = a[2]
  /\ log = <<>>
  /\ ticks = 0
  /\ guard = NoInput

Check ==
  /\ Len(log) < MaxCalls
  /\ \E key \in Keys :
       LET c == check(attempts, key, now, rlMax, rlWindow) IN
         /\ attempts' = c.map
         /\ log' = Append(log, [key |-> key, t |-> now, ok |-> c.ret])
  /\ UNCHANGED <<now, rlMax, rlWindow, ticks, guard>>

Tick ==
  /\ ticks < MaxTicks
  /\ \E d \in {1, rlWindow - 1, rlWindow} : now' = now + d
  /\ ticks' = ticks + 1
  /\ UNCHANGED <<attempts, rlMax, rlWindow, log, guard>>

----------------------------------------------------------------------------
(* Security utilities: sanitizeInput and the validators (part_006 11-32) *)

(* A string is the sequence of its characters.                             *)
MaxLen == 3

Alphabet == {"<", ">", " ", "a"}

Strings == UNION {[1 .. n -> Alphabet] : n \in 0 .. MaxLen}

LengthCap == 1000
ReminderCap == 500
MinPasswordLength == 8

IsSpace(c) == c \in {" ", "\t", "\n"}

(* Empty or whitespace-only.                                               *)
IsBlank(str) == \A i \in DOMAIN str : IsSpace(str[i])

(* String.prototype.trim *)
trim(str) ==
  LET kept == {i \in DOMAIN str : ~IsSpace(str[i])} IN
  IF kept = {} THEN <<>>
  ELSE LET first == CHOOSE i \in kept : \A j \in kept : i <= j
           last == CHOOSE i \in kept : \A j \in kept : j <= i
       IN SubSeq(str, first, last)

(* .replace(/[<>]/g, '') *)
replaceAngleBrackets(str) ==
  LET keep(c) == c \notin {"<", ">"} IN SelectSeq(str, keep)

(* .substring(0, n) *)
substring(str, n) == IF Len(str) <= n THEN str ELSE SubSeq(str, 1, n)

(* sanitizeInput(input), for a string input.                               *)
sanitizeInput(input) == substring(replaceAngleBrackets(trim(input)), LengthCap)

(* emailRegex = /^[^\s@]+@[^\s@]+\.[^\s@]+$/ : an '@' and, later, a '.',   *)
(* each with something before and after, and no space or other '@'.        *)
validateEmail(email) ==
  \E i, j \in DOMAIN email :
    /\ email[i] = "@" /\ email[j] = "."
    /\ 1 < i /\ i + 1 < j /\ j < Len(email)
    /\ \A k \in DOMAIN email : k # i => (~IsSpace(email[k]) /\ email[k] # "@")

UpperCase == {"A"}
LowerCase == {"a", "b", "c"}
Digits == {"1"}

validatePassword(password) ==
  /\ Len(password) >= MinPasswordLength
  /\ \E i \in DOMAIN password : password[i] \in UpperCase
  /\ \E i \in DOMAIN password : password[i] \in LowerCase
  /\ \E i \in DOMAIN password : password[i] \in Digits

validateReminderText(text) ==
  LET clean == sanitizeInput(text) IN Len(clean) > 0 /\ Len(clean) <= ReminderCap

(* The input of the scenario, "  <script>bad</script>  ", and a string one *)
(* character longer than the cap.                                          *)
ScriptInput ==
  <<" ", " ", "<", "s", "c", "r", "i", "p", "t", ">", "b", "a", "d",
    "<", "/", "s", "c", "r", "i", "p", "t", ">", " ", " ">>

LongInput == [i \in 1 .. (LengthCap + 1) |-> "a"]

SanitizeInputs == Strings \cup {ScriptInput, LongInput}

InitSanitize ==
  /\ attempts = EmptyStore
  /\ now = 0
  /\ rlMax = DefaultMax
  /\ rlWindow = DefaultWindowMs
  /\ log = <<>>
  /\ ticks = 0
  /\ \E x \in SanitizeInputs : guard = [NoInput EXCEPT !.op = "input", !.text = x]

(* const cleanText = sanitizeInput(newReminder) *)
Sanitize ==
  /\ guard.op = "input"
  /\ guard' = [guard EXCEPT !.op = "sanitizeInput", !.clean = sanitizeInput(guard.text)]
  /\ UNCHANGED <<attempts, now, rlMax, rlWindow, log, ticks>>

----------------------------------------------------------------------------
(* The forms: sign-up validation (part_005) and reminder submission        *)
(* (part_006 1-8)                                                          *)

AnnEmail == <<"a", "@", "b", ".", "c">>

FormEmails == {<<>>, <<" ">>, <<"a", "@", "b">>, AnnEmail}

StrongPassword == <<"A", "a", "1", "a", "b", "c", "a", "b">>

FormPasswords ==
  {<<>>, [i \in 1 .. MinPasswordLength |-> " "], <<"a", "1">>, StrongPassword}

ReminderTexts == {<<>>, <<" ">>, <<"<">>, <<"a">>}

(* A form that asks the rate limiter before it validates.                  *)
authFormResultRateFirst(map, email, password, n) ==
  LET c == check(map, email, n, DefaultMax, DefaultWindowMs) IN
  IF ~c.ret
  THEN [error |-> "Too many attempts, please wait a minute", checked |-> TRUE,
        map |-> c.map]
  ELSE IF ~validateEmail(email)
  THEN [error |-> "Invalid email format", checked |-> TRUE, map |-> c.map]
  ELSE IF ~validatePassword(password)
  THEN [error |-> "Password must be 8+ chars with upper, lower, number",
        checked |-> TRUE, map |-> c.map]
  ELSE [error |-> "", checked |-> TRUE, map |-> c.map]

(* The three guards of the form, in their order: the error set (none when  *)
(* the form goes on), whether rateLimit.check was called, and the map of   *)
(* the limiter afterwards.                                                 *)
authFormResult(map, email, password, n) ==
  IF ~validateEmail(email)
  THEN [error |-> "Invalid email format", checked |-> FALSE, map |-> map]
  ELSE IF ~validatePassword(password)
  THEN [error |-> "Password must be 8+ chars with upper, lower, number",
        checked |-> FALSE, map |-> map]
  ELSE LET c == check(map, email, n, DefaultMax, DefaultWindowMs) IN
       IF ~c.ret
       THEN [error |-> "Too many attempts, please wait a minute", checked |-> TRUE,
             map |-> c.map]
       ELSE [error |-> "", checked |-> TRUE, map |-> c.map]

authFormSubmit(email, password) ==
  /\ Len(log) < MaxCalls
  /\ LET r == authFormResult(attempts, email, password, now) IN
       /\ attempts' = r.map
       /\ log' = IF r.checked
                 THEN Append(log, [key |-> email, t |-> now, ok |-> r.error = ""])
                 ELSE log
       /\ guard' = [NoInput EXCEPT !.op = "authForm", !.email = email,
                                   !.password = password,
                                   !.result = IF r.error = "" THEN "submitted" ELSE r.error]
  /\ UNCHANGED <<now, rlMax, rlWindow, ticks>>

AuthFormSubmit == \E e \in FormEmails, p \in FormPasswords : authFormSubmit(e, p)

(* cleanText = sanitizeInput(newReminder); return unless it validates;     *)
(* otherwise the reminder is inserted. The rate limiter is not asked.      *)
reminderSubmit(text) ==
  /\ LET cleanText == sanitizeInput(text) IN
       guard' = [NoInput EXCEPT !.op = "reminder", !.text = text, !.clean = cleanText,
                                !.result = IF validateReminderText(cleanText)
                                           THEN "inserted" ELSE "rejected"]
  /\ UNCHANGED <<attempts, now, rlMax, rlWindow, log, ticks>>

ReminderSubmit == \E t \in ReminderTexts : reminderSubmit(t)

----------------------------------------------------------------------------
(* Signup page (part_008 17-100) *)

(* What the browser lets through to onSubmit: the inputs are required, and *)
(* the email input accepts an address without a dot.                       *)
DotlessEmail == <<"a", "@", "b">>

SignupNames == {<<>>, <<"a">>}

SignupEmails == {<<>>, DotlessEmail, AnnEmail}

SixLetters == <<"a", "b", "c", "a", "b", "c">>

SignupPasswords == {<<>>, <<"a", "1">>, SixLetters, StrongPassword}

SignupMinLength == 6

(* The three checks of Signup.handleSubmit, in their order: the toast      *)
(* shown, or "signup" when the handler goes on to call signup().           *)
signupFormResult(name, email, password, confirmPassword) ==
  IF name = <<>> \/ email = <<>> \/ password = <<>>
  THEN "Please fill in all fields"
  ELSE IF Len(password) < SignupMinLength
  THEN "Password must be at least 6 characters"
  ELSE IF password # confirmPassword
  THEN "Passwords do not match"
  ELSE "signup"

(* Signup.handleSubmit up to the await inside signup(). The submit button  *)
(* is disabled while isLoading.                                            *)
signupHandleSubmit(name, email, password, confirmPassword) ==
  /\ phase = "mounted"
  /\ ~isLoading
  /\ guard' = [NoInput EXCEPT !.op = "Signup.handleSubmit", !.name = name,
                              !.email = email, !.password = password,
                              !.confirm = confirmPassword,
                              !.result = signupFormResult(name, email, password,
                                                          confirmPassword)]
  /\ IF signupFormResult(name, email, password, confirmPassword) = "signup"
     THEN signup
     ELSE UNCHANGED authVars
  /\ UNCHANGED <<attempts, now, rlMax, rlWindow, log, ticks>>

SignupHandleSubmit ==
  \E n \in SignupNames, e \in SignupEmails, p \in SignupPasswords, c \in SignupPasswords :
    signupHandleSubmit(n, e, p, c)

(* Signup.handleSocialLogin: signup() with the demo account, unchecked.    *)
signupHandleSocialLogin ==
  /\ guard' = [NoInput EXCEPT !.op = "Signup.handleSocialLogin", !.result = "signup"]
  /\ signup
  /\ UNCHANGED <<attempts, now, rlMax, rlWindow, log, ticks>>

----------------------------------------------------------------------------
(* ApiService: chat and memories *)

Texts == {"q1"}
Replies == {"r1"}
MemIds == {"m1", "m2"}
Contents == {"c1"}

(* interface Memory, cut to the fields the timeline shows.                 *)
Memory == [id : MemIds, content : Contents]

(* Bounds: handleSendMessage calls in one behaviour, and the clock.        *)
MaxSends == 2
MaxClock == 2

M1 == [id |-> "m1", content |-> "c1"]
M2 == [id |-> "m2", content |-> "c1"]

(* Histories the service may answer with: empty, partial, complete, and    *)
(* complete in the other order.                                            *)
MemoryLists == {<<>>, <<M1>>, <<M2>>, <<M1, M2>>, <<M2, M1>>}

ChatOkBody(r) == [success |-> TRUE, response |-> r, error |-> ""]

ChatFailBody(e) == [success |-> FALSE, response |-> "", error |-> e]

ChatOutcomes ==
  {TransportFailure, HttpError("Internal Server Error"), HttpError("Unauthorized")}
    \cup {HttpOk(ChatOkBody(r)) : r \in Replies}
    \cup {HttpOk(ChatFailBody("engine unavailable"))}

MemoryOutcomes ==
  {TransportFailure, HttpError("Internal Server Error"), HttpError("Unauthorized")}
    \cup {HttpOk(l) : l \in MemoryLists}

RoutingOutcomes ==
  {TransportFailure, HttpOk([routing |-> "none"]), HttpOk([routing |-> "tutor_agent"])}

(* async sendChatMessage(message): return this.request('/chat', ...)       *)
sendChatMessage(outcome) == request(outcome)

(* async getUserMemories(userId, limit): return this.request('/memories?') *)
getUserMemories(outcome) == request(outcome)

(* async analyzeMessageRouting(message, userId)                            *)
analyzeMessageRouting(outcome) == request(outcome)

----------------------------------------------------------------------------
(* ApiService: the request handed to fetch and the mapping of failures *)

(* A response with a status code. Over HTTP/2 statusText is empty.         *)
Response(code, text, b) ==
  [t |-> "http", ok |-> (code >= 200 /\ code <= 299), status |-> code,
   statusText |-> text, body |-> b]

(* fetch rejects: timeout, DNS failure, refused connection.                *)
Rejected(why) ==
  [t |-> "transport", ok |-> FALSE, status |-> 0, statusText |-> why, body |-> NULL]

RejectReasons == {"timeout", "dns", "refused"}

StatusCodes == {400, 401, 404, 500, 503}

ReasonPhrase(code) ==
  CASE code = 400 -> "Bad Request"
    [] code = 401 -> "Unauthorized"
    [] code = 404 -> "Not Found"
    [] code = 500 -> "Internal Server Error"
    [] code = 503 -> "Service Unavailable"

GatewayFailures ==
  {Rejected(w) : w \in RejectReasons}
    \cup {Response(c, ReasonPhrase(c), NULL) : c \in StatusCodes}
    \cup {Response(c, "", NULL) : c \in StatusCodes}

Methods ==
  {"login", "signup", "googleAuth", "getCurrentUser", "sendChatMessage",
   "getUserMemories", "analyzeMessageRouting", "healthCheck"}

(* The body each method receives with a 200.                               *)
OkBodies(m) ==
  CASE m \in {"login", "signup", "googleAuth"} -> {AuthOkBody(U1, "t1"), AuthFailBody("")}
    [] m = "getCurrentUser" -> {[success |-> TRUE, user |-> U1], [success |-> FALSE, user |-> NULL]}
    [] m = "sendChatMessage" -> {ChatOkBody("r1")}
    [] m = "getUserMemories" -> {<<M1>>}
    [] m = "analyzeMessageRouting" -> {[routing |-> "none"]}
    [] m = "healthCheck" -> {NULL}

GatewayOutcomes(m) == GatewayFailures \cup {Response(200, "OK", b) : b \in OkBodies(m)}

(* async getCurrentUser(token)                                             *)
getCurrentUser(outcome) ==
  LET r == request(outcome) IN
  IF r.thrown THEN r
  ELSE IF ~r.value.success THEN Throw(<<"Failed to get user info">>)
  ELSE Return(r.value.user)

(* async healthCheck(): fetch in a try, true unless fetch rejects.         *)
healthCheck(outcome) == IF outcome.t = "transport" THEN Return(FALSE) ELSE Return(TRUE)

(* What the caller of method m gets when fetch gives outcome.              *)
methodResult(m, outcome) ==
  CASE m = "login" -> ApiService_login(outcome)
    [] m = "signup" -> ApiService_signup(outcome)
    [] m = "googleAuth" -> ApiService_googleAuth(outcome)
    [] m = "getCurrentUser" -> getCurrentUser(outcome)
    [] m = "sendChatMessage" -> sendChatMessage(outcome)
    [] m = "getUserMemories" -> getUserMemories(outcome)
    [] m = "analyzeMessageRouting" -> analyzeMessageRouting(outcome)
    [] m = "healthCheck" -> healthCheck(outcome)

NoHeaders == [h \in {} |-> <<>>]

ContentType == [h \in {"Content-Type"} |-> <<"application/json">>]

(* The headers option each method passes to request, if it passes one.     *)
(* getCurrentUser is given the token by its caller.                        *)
optionsHeaders(m, tok) ==
  IF m = "getCurrentUser"
  THEN [has |-> TRUE, headers |-> [h \in {"Authorization"} |-> <<"Bearer ", tok>>]]
  ELSE [has |-> FALSE, headers |-> NoHeaders]

(* fetch(url, {headers: {'Content-Type': ..., ...options?.headers},        *)
(* ...options}): a headers key in options replaces the merged one.         *)
(* healthCheck calls fetch with the url alone.                             *)
fetchHeaders(m, tok) ==
  IF m = "healthCheck" THEN NoHeaders
  ELSE IF optionsHeaders(m, tok).has THEN optionsHeaders(m, tok).headers
  ELSE ContentType

NoOutcome == Response(0, "", NULL)

GatewayIdle ==
  gateway = [method |-> "none", stage |-> "idle", headers |-> NoHeaders,
             outcome |-> NoOutcome, thrown |-> FALSE, error |-> <<>>]

(* A method is called and runs up to its await of fetch.                   *)
gatewayCall(m) ==
  /\ gateway.stage # "sent"
  /\ gateway' = [method |-> m, stage |-> "sent", headers |-> fetchHeaders(m, token),
                 outcome |-> NoOutcome, thrown |-> FALSE, error |-> <<>>]

GatewayCall == \E m \in Methods : gatewayCall(m)

(* fetch settles and the method returns or throws.                         *)
gatewaySettles(o) ==
  /\ gateway.stage = "sent"
  /\ gateway' = [gateway EXCEPT !.stage = "settled", !.outcome = o,
                                !.thrown = methodResult(gateway.method, o).thrown,
                                !.error = methodResult(gateway.method, o).error]

GatewaySettles ==
  /\ gateway.stage = "sent"
  /\ \E o \in GatewayOutcomes(gateway.method) : gatewaySettles(o)

----------------------------------------------------------------------------
(* Dashboard *)

(* Date.now().toString() is one-to-one on clock values: an id is kept as   *)
(* the clock value it was made from.                                       *)
UserEntry(text, call, n) ==
  [id |-> n, message |-> text, response |-> <<>>, isUser |-> TRUE, call |-> call,
   timestamp |-> n]

AiEntry(text, resp, call, n) ==
  [id |-> n + 1, message |-> text, response |-> resp, isUser |-> FALSE, call |-> call,
   timestamp |-> n]

(* enhancedResponse: the reply, headed by the agent line when the routing  *)
(* analysis gave one.                                                      *)
enhancedResponse(routing, reply) ==
  IF routing # "none" THEN <<"**Agent: ", routing, reply>> ELSE <<reply>>

UserIds == {"default_user"} \cup {u.id : u \in Users}

uidOf(u) == IF u = NULL THEN "default_user" ELSE u.id

InitDashboard ==
  /\ dashPhase = "rendered"
  /\ chatMessages = <<>>
  /\ memories = <<>>
  /\ isSendingMessage = FALSE
  /\ seenSending = FALSE
  /\ isLoadingMemories = FALSE
  /\ sends = {}
  /\ fetches = [uid \in UserIds |-> 0]

DashboardIdle ==
  /\ dashPhase = "gone"
  /\ chatMessages = <<>>
  /\ memories = <<>>
  /\ isSendingMessage = FALSE
  /\ seenSending = FALSE
  /\ isLoadingMemories = FALSE
  /\ sends = {}
  /\ fetches = [uid \in UserIds |-> 0]

(* useEffect(..., [isAuthenticated, user]): load user data once shown.     *)
DashboardEffect ==
  /\ surface = "Dashboard"
  /\ dashPhase = "rendered"
  /\ dashPhase' = "ready"
  /\ IF isAuthenticated
     THEN /\ isLoadingMemories' = TRUE
          /\ fetches' = [fetches EXCEPT ![uidOf(user)] = @ + 1]
     ELSE UNCHANGED <<isLoadingMemories, fetches>>
  /\ UNCHANGED <<chatMessages, memories, isSendingMessage, seenSending, sends>>
  /\ UNCHANGED <<surface, sendCount, lastChat, chatVars, mvVars>>

(* A load that adds the fetched list to the one held.                      *)
loadedMemoriesAppending(old, res) == IF res.thrown THEN old ELSE old \o res.value

(* What setMemories leaves after the await of loadMemories has settled.    *)
loadedMemories(old, res) == IF res.thrown THEN old ELSE res.value

(* A continuation of loadMemories that also resets the chat entries.       *)
loadMemoriesSettlesDroppingLive(uid, o) ==
  /\ surface = "Dashboard"
  /\ fetches[uid] > 0
  /\ fetches' = [fetches EXCEPT ![uid] = @ - 1]
  /\ IF dashPhase = "gone"
     THEN UNCHANGED <<memories, isLoadingMemories, chatMessages>>
     ELSE /\ memories' = loadedMemories(memories, getUserMemories(o))
          /\ isLoadingMemories' = FALSE
          /\ chatMessages' = <<>>
  /\ UNCHANGED <<dashPhase, isSendingMessage, seenSending, sends>>
  /\ UNCHANGED <<surface, sendCount, lastChat, chatVars, mvVars>>

(* loadMemories after its await: try / catch (log only) / finally. The     *)
(* state of a Dashboard no longer on screen is not updated.                *)
loadMemoriesSettles(uid, o) ==
  /\ surface = "Dashboard"
  /\ fetches[uid] > 0
  /\ fetches' = [fetches EXCEPT ![uid] = @ - 1]
  /\ IF dashPhase = "gone"
     THEN UNCHANGED <<memories, isLoadingMemories>>
     ELSE /\ memories' = loadedMemories(memories, getUserMemories(o))
          /\ isLoadingMemories' = FALSE
  /\ UNCHANGED <<dashPhase, chatMessages, isSendingMessage, seenSending, sends>>
  /\ UNCHANGED <<surface, sendCount, lastChat, chatVars, mvVars>>

loadMemoriesResume ==
  \E uid \in UserIds, o \in MemoryOutcomes : loadMemoriesSettles(uid, o)

(* setChatMessages(prev => [...prev, m])                                   *)
prepended(prev, m) == <<m>> \o prev

appended(prev, m) == Append(prev, m)

(* The user needs more than a millisecond to type and submit a message:   *)
(* a send reads a later clock value than the entries already shown.        *)
LaterThanLastSend(list, n) ==
  \A i \in DOMAIN list : list[i].call > 0 => list[i].timestamp < n

(* A handler without the isSendingMessage check.                           *)
handleSendMessageUnguarded ==
  /\ surface = "Dashboard"
  /\ dashPhase = "ready"
  /\ sendCount < MaxSends
  /\ LaterThanLastSend(chatMessages, now)
  /\ \E text \in Texts :
       /\ chatMessages' = appended(chatMessages, UserEntry(text, sendCount + 1, now))
       /\ sends' = sends \cup {[call |-> sendCount + 1, text |-> text, stage |-> "routing",
                                routing |-> "none", uid |-> uidOf(user)]}
  /\ isSendingMessage' = TRUE
  /\ seenSending' = TRUE
  /\ sendCount' = sendCount + 1
  /\ UNCHANGED <<dashPhase, memories, isLoadingMemories, fetches>>
  /\ UNCHANGED <<surface, lastChat, chatVars, mvVars>>

(* handleSendMessage up to its first await. React renders the state set   *)
(* inside an event handler before it dispatches the next event, so the     *)
(* next call sees isSendingMessage true; state set after an await is       *)
(* rendered later (DashboardRender).                                       *)
handleSendMessage ==
  /\ surface = "Dashboard"
  /\ dashPhase = "ready"
  /\ ~seenSending
  /\ sendCount < MaxSends
  /\ LaterThanLastSend(chatMessages, now)
  /\ \E text \in Texts :
       /\ chatMessages' = appended(chatMessages, UserEntry(text, sendCount + 1, now))
       /\ sends' = sends \cup {[call |-> sendCount + 1, text |-> text, stage |-> "routing",
                                routing |-> "none", uid |-> uidOf(user)]}
  /\ isSendingMessage' = TRUE
  /\ seenSending' = TRUE
  /\ sendCount' = sendCount + 1
  /\ UNCHANGED <<dashPhase, memories, isLoadingMemories, fetches>>
  /\ UNCHANGED <<surface, lastChat, chatVars, mvVars>>

(* The inner try around analyzeMessageRouting, then the chat request.      *)
routingResume ==
  /\ surface = "Dashboard"
  /\ \E s \in sends, o \in RoutingOutcomes :
       LET res == analyzeMessageRouting(o) IN
         /\ s.stage = "routing"
         /\ sends' = (sends \ {s}) \cup
              {[s EXCEPT !.stage = "chat",
                         !.routing = IF res.thrown THEN "none" ELSE res.value.routing]}
  /\ UNCHANGED <<dashPhase, chatMessages, memories, isSendingMessage, seenSending,
                 isLoadingMemories, fetches>>
  /\ UNCHANGED <<surface, sendCount, lastChat, chatVars, mvVars>>

(* What setChatMessages leaves once the chat request has settled.          *)
resolvedMessages(old, s, res, n) ==
  IF ~res.thrown /\ res.value.success
  THEN appended(old, AiEntry(s.text, enhancedResponse(s.routing, res.value.response), s.call, n))
  ELSE old

(* handleSendMessage after sendChatMessage has settled: the success branch *)
(* (which also calls loadMemories), the two toast branches, the finally.   *)
chatSettles(s, o) ==
  LET res == sendChatMessage(o)
      ok == ~res.thrown /\ res.value.success
  IN
    /\ surface = "Dashboard"
    /\ s \in sends
    /\ s.stage = "chat"
    /\ sends' = sends \ {s}
    /\ lastChat' = [thrown |-> res.thrown, success |-> ok]
    /\ fetches' = IF ok THEN [fetches EXCEPT ![s.uid] = @ + 1] ELSE fetches
    /\ IF dashPhase = "gone"
       THEN UNCHANGED <<chatMessages, isLoadingMemories, isSendingMessage>>
       ELSE /\ chatMessages' = resolvedMessages(chatMessages, s, res, now)
            /\ isLoadingMemories' = IF ok THEN TRUE ELSE isLoadingMemories
            /\ isSendingMessage' = FALSE
    /\ UNCHANGED <<dashPhase, memories, seenSending>>
    /\ UNCHANGED <<surface, sendCount, chatVars, mvVars>>

chatResume == \E s \in sends, o \in ChatOutcomes : chatSettles(s, o)

(* React renders again: the handler now closes over the current state.     *)
DashboardRender ==
  /\ surface = "Dashboard"
  /\ seenSending # isSendingMessage
  /\ seenSending' = isSendingMessage
  /\ UNCHANGED <<dashPhase, chatMessages, memories, isSendingMessage,
                 isLoadingMemories, sends, fetches>>
  /\ UNCHANGED <<surface, sendCount, lastChat, chatVars, mvVars>>

(* handleLogout: clear the local state, logout(), navigate("/").           *)
handleLogout ==
  /\ surface = "Dashboard"
  /\ dashPhase = "ready"
  /\ chatMessages' = <<>>
  /\ memories' = <<>>
  /\ logout
  /\ dashPhase' = "gone"
  /\ UNCHANGED <<isSendingMessage, seenSending, isLoadingMemories, sends, fetches>>
  /\ UNCHANGED <<surface, sendCount, lastChat, chatVars, mvVars>>

(* Time passes between two readings of Date.now().                         *)
ClockAdvance ==
  /\ now < MaxClock
  /\ now' = now + 1
  /\ UNCHANGED <<attempts, rlMax, rlWindow, log, ticks, guard>>

----------------------------------------------------------------------------
(* AIChat *)

(* Date.now() counts milliseconds since 1970: every value it gives in a    *)
(* session lies far above the literal id 1 of the greeting. The clock of   *)
(* the model counts from the start of the session.                         *)
SessionStart == 1000

DateNow == SessionStart + now

Greeting == [id |-> 1, text |-> <<"Hi! I'm AURA">>, sender |-> "ai", call |-> 0,
             timestamp |-> 0]

ConnectionFallback == <<"I'm having trouble connecting right now.">>

(* getAIResponse(userMessage): the reply, or the fallback text from the    *)
(* catch block; it never throws.                                           *)
getAIResponse(outcome) ==
  IF outcome.t = "transport" THEN ConnectionFallback
  ELSE IF ~outcome.ok THEN ConnectionFallback
  ELSE IF ~outcome.body.success THEN ConnectionFallback
  ELSE <<outcome.body.response>>

InitAIChat ==
  /\ messages = <<Greeting>>
  /\ aiIsLoading = FALSE
  /\ aiSeenLoading = FALSE
  /\ isTyping = FALSE
  /\ aiReqs = {}
  /\ aiTimers = <<>>

(* AIChat.handleSendMessage up to the await of getAIResponse.              *)
aiHandleSendMessage ==
  /\ surface = "AIChat"
  /\ ~aiSeenLoading
  /\ sendCount < MaxSends
  /\ LaterThanLastSend(messages, now)
  /\ \E text \in Texts :
       /\ messages' = appended(messages, [id |-> DateNow, text |-> <<text>>, sender |-> "user",
                                          call |-> sendCount + 1, timestamp |-> now])
       /\ aiReqs' = aiReqs \cup {[call |-> sendCount + 1, text |-> text]}
  /\ aiIsLoading' = TRUE
  /\ aiSeenLoading' = TRUE
  /\ isTyping' = TRUE
  /\ sendCount' = sendCount + 1
  /\ UNCHANGED aiTimers
  /\ UNCHANGED <<surface, lastChat, dashVars, mvVars>>

(* After the await: the reply is handed to setTimeout(..., 500), and the   *)
(* finally clears isLoading at once.                                       *)
aiResponseResume ==
  /\ surface = "AIChat"
  /\ \E r \in aiReqs, o \in ChatOutcomes :
       /\ aiReqs' = aiReqs \ {r}
       /\ aiTimers' = Append(aiTimers, [call |-> r.call, text |-> getAIResponse(o),
                                        setAt |-> now])
       /\ lastChat' = [thrown |-> FALSE, success |-> getAIResponse(o) # ConnectionFallback]
  /\ aiIsLoading' = FALSE
  /\ UNCHANGED <<messages, aiSeenLoading, isTyping>>
  /\ UNCHANGED <<surface, sendCount, dashVars, mvVars>>

(* The setTimeout callback. Every timer has the same delay of 500 ms, so   *)
(* they run in the order they were set, each at a later clock value than   *)
(* the one it was set at.                                                  *)
aiTimerFires ==
  /\ surface = "AIChat"
  /\ aiTimers # <<>>
  /\ LET t == Head(aiTimers) IN
       /\ now > t.setAt
       /\ aiTimers' = Tail(aiTimers)
       /\ messages' = appended(messages, [id |-> DateNow + 1, text |-> t.text,
                                          sender |-> "ai", call |-> t.call,
                                          timestamp |-> now])
  /\ isTyping' = FALSE
  /\ UNCHANGED <<aiIsLoading, aiSeenLoading, aiReqs>>
  /\ UNCHANGED <<surface, sendCount, lastChat, dashVars, mvVars>>

AIChatRender ==
  /\ surface = "AIChat"
  /\ aiSeenLoading # aiIsLoading
  /\ aiSeenLoading' = aiIsLoading
  /\ UNCHANGED <<messages, aiIsLoading, isTyping, aiReqs, aiTimers>>
  /\ UNCHANGED <<surface, sendCount, lastChat, dashVars, mvVars>>

----------------------------------------------------------------------------
(* MemoryVisualization *)

(* Bound: fetchMemories calls suspended at the same time.                  *)
MaxMvInFlight == 2

(* realMemories.map((memory, index) => ({id: memory.id || index, ...}))    *)
transformedMemories(list) ==
  [i \in 1 .. Len(list) |->
     [id |-> IF list[i].id # "" THEN list[i].id ELSE ToString(i - 1),
      title |-> list[i].content]]

InitMemoryVisualization ==
  /\ mvMemories = <<>>
  /\ mvIsLoading = TRUE
  /\ mvFetches = 0

(* useEffect(..., [user]): runs on mount and whenever the user prop        *)
(* changes; fetchMemories up to its await.                                 *)
fetchMemories ==
  /\ surface = "MemoryVisualization"
  /\ mvFetches < MaxMvInFlight
  /\ mvIsLoading' = TRUE
  /\ mvFetches' = mvFetches + 1
  /\ UNCHANGED mvMemories
  /\ UNCHANGED <<surface, sendCount, lastChat, dashVars, chatVars>>

(* What setMemories leaves: the transformed list, or [] from the catch.    *)
fetchedMemories(old, outcome) ==
  IF outcome.t = "transport" \/ ~outcome.ok
  THEN <<>>
  ELSE transformedMemories(outcome.body)

fetchMemoriesSettles(o) ==
  /\ surface = "MemoryVisualization"
  /\ mvFetches > 0
  /\ mvMemories' = fetchedMemories(mvMemories, o)
  /\ mvIsLoading' = FALSE
  /\ mvFetches' = mvFetches - 1
  /\ UNCHANGED <<surface, sendCount, lastChat, dashVars, chatVars>>

fetchMemoriesResume == \E o \in MemoryOutcomes : fetchMemoriesSettles(o)

----------------------------------------------------------------------------
(* The surface on screen *)

SurfaceIdle ==
  /\ surface = "none"
  /\ sendCount = 0
  /\ lastChat = [thrown |-> FALSE, success |-> FALSE]
  /\ DashboardIdle
  /\ InitAIChat
  /\ InitMemoryVisualization

(* The Dashboard is shown to a signed-in user; the other two surfaces take *)
(* the user as a prop.                                                     *)
InitSurface ==
  /\ surface \in {"Dashboard", "AIChat", "MemoryVisualization"}
  /\ sendCount = 0
  /\ lastChat = [thrown |-> FALSE, success |-> FALSE]
  /\ InitDashboard
  /\ InitAIChat
  /\ InitMemoryVisualization
  /\ phase = "mounted"
  /\ user = U1
  /\ token = "t1"
  /\ isLoading = FALSE
  /\ storage = StoreSession(EmptyStore, [user |-> U1, token |-> "t1"])
  /\ authReqs = {}
  /\ lastOp = "resolved"
  /\ lastResult = Return([user |-> U1, token |-> "t1"])
  /\ atRestart = [user |-> NULL, token |-> NullToken, stored |-> FALSE, partial |-> FALSE]
  /\ RateIdle
  /\ GatewayIdle

NextSurface ==
  \/ DashboardEffect /\ UNCHANGED <<authVars, rateVars>> /\ UNCHANGED gatewayVars
  \/ loadMemoriesResume /\ UNCHANGED <<authVars, rateVars>> /\ UNCHANGED gatewayVars
  \/ handleSendMessage /\ UNCHANGED <<authVars, rateVars>> /\ UNCHANGED gatewayVars
  \/ routingResume /\ UNCHANGED <<authVars, rateVars>> /\ UNCHANGED gatewayVars
  \/ chatResume /\ UNCHANGED <<authVars, rateVars>> /\ UNCHANGED gatewayVars
  \/ DashboardRender /\ UNCHANGED <<authVars, rateVars>> /\ UNCHANGED gatewayVars
  \/ handleLogout /\ UNCHANGED rateVars /\ UNCHANGED gatewayVars
  \/ aiHandleSendMessage /\ UNCHANGED <<authVars, rateVars>> /\ UNCHANGED gatewayVars
  \/ aiResponseResume /\ UNCHANGED <<authVars, rateVars>> /\ UNCHANGED gatewayVars
  \/ aiTimerFires /\ UNCHANGED <<authVars, rateVars>> /\ UNCHANGED gatewayVars
  \/ AIChatRender /\ UNCHANGED <<authVars, rateVars>> /\ UNCHANGED gatewayVars
  \/ fetchMemories /\ UNCHANGED <<authVars, rateVars>> /\ UNCHANGED gatewayVars
  \/ fetchMemoriesResume /\ UNCHANGED <<authVars, rateVars>> /\ UNCHANGED gatewayVars
  \/ ClockAdvance /\ UNCHANGED <<authVars, surfaceVars>> /\ UNCHANGED gatewayVars

(* One conversation surface, its requests and the clock.                   *)
SpecSurface == InitSurface /\ [][NextSurface]_vars

----------------------------------------------------------------------------
(* The Dashboard while a sign-in is still pending *)

(* The Login page's Google button is not disabled while a sign-in is       *)
(* pending, and AuthProvider outlives the pages: a second sign-in can be   *)
(* suspended at its await when the first has resolved and the Dashboard    *)
(* is on screen.                                                           *)
InitSwitch ==
  /\ surface = "Dashboard"
  /\ sendCount = 0
  /\ lastChat = [thrown |-> FALSE, success |-> FALSE]
  /\ InitDashboard
  /\ InitAIChat
  /\ InitMemoryVisualization
  /\ phase = "mounted"
  /\ user = U1
  /\ token = "t1"
  /\ isLoading = FALSE
  /\ storage = StoreSession(EmptyStore, [user |-> U1, token |-> "t1"])
  /\ \E op \in {"login", "signup", "googleLogin"} :
       authReqs = {[slot |-> MaxAuthInFlight, op |-> op]}
  /\ lastOp = "resolved"
  /\ lastResult = Return([user |-> U1, token |-> "t1"])
  /\ atRestart = [user |-> NULL, token |-> NullToken, stored |-> FALSE, partial |-> FALSE]
  /\ RateIdle
  /\ GatewayIdle

(* useEffect(..., [isAuthenticated, user]) of the Dashboard: setUser with   *)
(* the object of a new sign-in changes the dependencies, so the effect is  *)
(* due again.                                                              *)
DashboardSeesUser ==
  /\ surface = "Dashboard"
  /\ dashPhase' = IF dashPhase = "ready" /\ ~lastResult'.thrown
                  THEN "rendered" ELSE dashPhase
  /\ UNCHANGED <<chatMessages, memories, isSendingMessage, seenSending,
                 isLoadingMemories, sends, fetches>>
  /\ UNCHANGED <<surface, sendCount, lastChat, chatVars, mvVars>>

NextSwitch ==
  \/ DashboardEffect /\ UNCHANGED <<authVars, rateVars>> /\ UNCHANGED gatewayVars
  \/ loadMemoriesResume /\ UNCHANGED <<authVars, rateVars>> /\ UNCHANGED gatewayVars
  \/ loginResume /\ DashboardSeesUser /\ UNCHANGED rateVars /\ UNCHANGED gatewayVars
  \/ signupResume /\ DashboardSeesUser /\ UNCHANGED rateVars /\ UNCHANGED gatewayVars
  \/ googleLoginResume /\ DashboardSeesUser /\ UNCHANGED rateVars /\ UNCHANGED gatewayVars
  \/ handleLogout /\ UNCHANGED rateVars /\ UNCHANGED gatewayVars

(* The Dashboard, its memories requests and a sign-in that resolves late.  *)
SpecSwitch == InitSwitch /\ [][NextSwitch]_vars

----------------------------------------------------------------------------
(* Specifications *)

InitRate ==
  /\ InitRateLimit
  /\ AuthIdle
  /\ SurfaceIdle
  /\ GatewayIdle

NextRate ==
  \/ Check /\ UNCHANGED <<authVars, surfaceVars>> /\ UNCHANGED gatewayVars
  \/ Tick /\ UNCHANGED <<authVars, surfaceVars>> /\ UNCHANGED gatewayVars

(* The rate limiter under calls and clock advances.                        *)
SpecRate == InitRate /\ [][NextRate]_vars

InitSession ==
  /\ InitAuth
  /\ RateIdle
  /\ SurfaceIdle
  /\ GatewayIdle

NextSession ==
  \/ Mount /\ UNCHANGED <<rateVars, surfaceVars>> /\ UNCHANGED gatewayVars
  \/ login /\ UNCHANGED <<rateVars, surfaceVars>> /\ UNCHANGED gatewayVars
  \/ signup /\ UNCHANGED <<rateVars, surfaceVars>> /\ UNCHANGED gatewayVars
  \/ googleLogin /\ UNCHANGED <<rateVars, surfaceVars>> /\ UNCHANGED gatewayVars
  \/ loginResume /\ UNCHANGED <<rateVars, surfaceVars>> /\ UNCHANGED gatewayVars
  \/ signupResume /\ UNCHANGED <<rateVars, surfaceVars>> /\ UNCHANGED gatewayVars
  \/ googleLoginResume /\ UNCHANGED <<rateVars, surfaceVars>> /\ UNCHANGED gatewayVars
  \/ logout /\ UNCHANGED <<rateVars, surfaceVars>> /\ UNCHANGED gatewayVars
  \/ Reload /\ UNCHANGED <<rateVars, surfaceVars>> /\ UNCHANGED gatewayVars

InitGuard ==
  /\ InitSanitize
  /\ AuthIdle
  /\ SurfaceIdle
  /\ GatewayIdle

NextGuard ==
  \/ Sanitize /\ UNCHANGED <<authVars, surfaceVars>> /\ UNCHANGED gatewayVars

(* sanitizeInput applied to every input of the bounded set.                *)
SpecSanitize == InitGuard /\ [][NextGuard]_vars

InitForm ==
  /\ RateIdle
  /\ AuthIdle
  /\ SurfaceIdle
  /\ GatewayIdle

NextForm ==
  \/ AuthFormSubmit /\ UNCHANGED <<authVars, surfaceVars>> /\ UNCHANGED gatewayVars
  \/ ReminderSubmit /\ UNCHANGED <<authVars, surfaceVars>> /\ UNCHANGED gatewayVars
  \/ ClockAdvance /\ UNCHANGED <<authVars, surfaceVars>> /\ UNCHANGED gatewayVars

(* The two forms, the rate limiter behind the first, and the clock.        *)
SpecForm == InitForm /\ [][NextForm]_vars

InitSignup ==
  /\ RateIdle
  /\ AuthIdle
  /\ SurfaceIdle
  /\ GatewayIdle

NextSignup ==
  \/ SignupHandleSubmit /\ UNCHANGED surfaceVars /\ UNCHANGED gatewayVars
  \/ signupHandleSocialLogin /\ UNCHANGED surfaceVars /\ UNCHANGED gatewayVars
  \/ signupResume /\ UNCHANGED <<rateVars, surfaceVars>> /\ UNCHANGED gatewayVars

(* The Signup page and the sign-up requests it starts.                     *)
SpecSignup == InitSignup /\ [][NextSignup]_vars

InitProcess ==
  /\ InitStart
  /\ RateIdle
  /\ SurfaceIdle
  /\ GatewayIdle

NextProcess ==
  \/ Mount /\ UNCHANGED <<rateVars, surfaceVars>> /\ UNCHANGED gatewayVars
  \/ login /\ UNCHANGED <<rateVars, surfaceVars>> /\ UNCHANGED gatewayVars
  \/ loginResume /\ UNCHANGED <<rateVars, surfaceVars>> /\ UNCHANGED gatewayVars
  \/ logout /\ UNCHANGED <<rateVars, surfaceVars>> /\ UNCHANGED gatewayVars
  \/ Reload /\ UNCHANGED <<rateVars, surfaceVars>> /\ UNCHANGED gatewayVars

(* AuthProvider started over whatever localStorage holds.                  *)
SpecStart == InitProcess /\ [][NextProcess]_vars

(* The page is open with or without a session.                             *)
InitGateway ==
  /\ GatewayIdle
  /\ AuthIdle \/ (\E k \in Tokens :
                    /\ phase = "mounted"
                    /\ user = U1
                    /\ token = k
                    /\ isLoading = FALSE
                    /\ storage = StoreSession(EmptyStore, [user |-> U1, token |-> k])
                    /\ authReqs = {}
                    /\ lastOp = "resolved"
                    /\ lastResult = Return([user |-> U1, token |-> k])
                    /\ atRestart = [user |-> NULL, token |-> NullToken, stored |-> FALSE,
                                    partial |-> FALSE])
  /\ RateIdle
  /\ SurfaceIdle

NextGateway ==
  \/ GatewayCall /\ UNCHANGED <<authVars, rateVars, surfaceVars>>
  \/ GatewaySettles /\ UNCHANGED <<authVars, rateVars, surfaceVars>>
  \/ logout /\ UNCHANGED <<rateVars, surfaceVars, gatewayVars>>

(* The methods of ApiService, one call at a time.                          *)
SpecGateway == InitGateway /\ [][NextGateway]_vars

(* AuthProvider, localStorage and page reloads.                            *)
SpecAuth == InitSession /\ [][NextSession]_vars

----------------------------------------------------------------------------
(* Claims about the timeline (SpecSurface) *)

IdsOf(list) == {list[i].id : i \in DOMAIN list}

NoDuplicateIds(list) ==
  \A i, j \in DOMAIN list : list[i].id = list[j].id => i = j

FetchFailures == {TransportFailure, HttpError("Internal Server Error")}

ChatFailures ==
  {TransportFailure, HttpError("Internal Server Error"),
   HttpOk(ChatFailBody("engine unavailable"))}

IsUserEntry(m) == m.isUser

IsUserMessage(m) == m.sender = "user"

(* C1: when a history fetch of the Dashboard settles, every identifier the *)
(* timeline (memories and chat entries) held before is still held, and no  *)
(* identifier occurs twice.                                                *)
C1_MergeKeepsIds ==
  [][\A uid \in UserIds, o \in MemoryOutcomes :
       (loadMemoriesSettles(uid, o) /\ dashPhase # "gone") =>
         /\ IdsOf(memories) \subseteq IdsOf(memories')
         /\ IdsOf(chatMessages) \subseteq IdsOf(chatMessages')
         /\ NoDuplicateIds(memories')]_vars

(* C2: a history fetch that fails leaves the timeline of the component as  *)
(* it was, in the Dashboard and in MemoryVisualization.                    *)
C2_FailedFetchKeepsTimeline ==
  [][/\ \A uid \in UserIds, o \in FetchFailures :
          loadMemoriesSettles(uid, o) =>
            (memories' = memories /\ chatMessages' = chatMessages)
     /\ \A o \in FetchFailures :
          fetchMemoriesSettles(o) => mvMemories' = mvMemories]_vars

(* C3: while the surface is on screen, the prompts in its timeline are     *)
(* exactly the sends made so far, in the order the sends were made.        *)
C3_PromptsInCallOrder ==
  /\ (surface = "Dashboard" /\ dashPhase # "gone") =>
       LET prompts == SelectSeq(chatMessages, IsUserEntry) IN
         /\ Len(prompts) = sendCount
         /\ \A i \in DOMAIN prompts : prompts[i].call = i
  /\ surface = "AIChat" =>
       LET prompts == SelectSeq(messages, IsUserMessage) IN
         /\ Len(prompts) = sendCount
         /\ \A i \in DOMAIN prompts : prompts[i].call = i

(* AIChat: the second prompt was sent before the reply to the first was    *)
(* appended (the reply waits 500 ms in its timer); both replies followed.  *)
C3_Witness ==
  /\ surface = "AIChat"
  /\ Len(messages) = 5
  /\ messages[2].sender = "user" /\ messages[2].call = 1
  /\ messages[3].sender = "user" /\ messages[3].call = 2
  /\ messages[4].sender = "ai" /\ messages[4].call = 1
  /\ messages[5].sender = "ai" /\ messages[5].call = 2

(* C4: when a chat request settles, the timeline is as long as before and  *)
(* the entry made for the prompt holds the response.                       *)
C4_ResolveFillsInPlace ==
  [][\A s \in sends, o \in ChatOutcomes :
       (chatSettles(s, o) /\ dashPhase # "gone") =>
         /\ Len(chatMessages') = Len(chatMessages)
         /\ \E i \in DOMAIN chatMessages' :
              /\ chatMessages'[i].call = s.call
              /\ chatMessages'[i].isUser
              /\ chatMessages'[i].response # <<>>]_vars

(* C5: when a chat request fails, the timeline then holds a non-empty      *)
(* response for that prompt.                                               *)
C5_FailedSendGetsApology ==
  [][\A s \in sends, o \in ChatFailures :
       (chatSettles(s, o) /\ dashPhase # "gone") =>
         \E i \in DOMAIN chatMessages' :
           /\ chatMessages'[i].call = s.call
           /\ chatMessages'[i].response # <<>>]_vars

(* C6: sendChatMessage gives its caller a result object; it never rejects. *)
C6_ChatSendNeverThrows == ~lastChat.thrown

(* The service rejects the credential of the call.                         *)
CredentialRejected == HttpError("Unauthorized")

(* C13: when a memories fetch or a chat send of the Dashboard settles with *)
(* the credential rejected, the session is anonymous afterwards: user and  *)
(* token are null.                                                         *)
C13_AuthErrorSignsOut ==
  [][/\ \A uid \in UserIds :
          loadMemoriesSettles(uid, CredentialRejected) =>
            (user' = NULL /\ token' = NullToken)
     /\ \A s \in sends :
          chatSettles(s, CredentialRejected) =>
            (user' = NULL /\ token' = NullToken)]_vars

(* C15: a memories fetch that settles when the signed-in user is no longer *)
(* the one it was issued for leaves the timeline as it was.                *)
C15_StaleFetchDiscarded ==
  [][\A uid \in UserIds, o \in MemoryOutcomes :
       (loadMemoriesSettles(uid, o) /\ uid # uidOf(user)) =>
         (memories' = memories /\ chatMessages' = chatMessages)]_vars

NoFetchPending == \A uid \in UserIds : fetches[uid] = 0

(* C16: when a memories fetch of the Dashboard settles, whatever it gives, *)
(* the entries made by sends (chatMessages) are the same as before, in     *)
(* content and order.                                                      *)
C16_RefetchKeepsLiveEntries ==
  [][\A uid \in UserIds, o \in MemoryOutcomes :
       loadMemoriesSettles(uid, o) => chatMessages' = chatMessages]_vars

(* The reload that follows an answered send has settled and brought a      *)
(* memory; the prompt and its answer are in the timeline.                  *)
C16_Witness ==
  /\ surface = "Dashboard" /\ dashPhase = "ready"
  /\ Len(chatMessages) = 2
  /\ chatMessages[1].isUser /\ ~chatMessages[2].isUser
  /\ NoFetchPending
  /\ memories = <<M1>>

(* C17: when a memories fetch of the Dashboard has settled, loading once   *)
(* more with the same answer of the service gives the same memories list,  *)
(* and leaves the chat entries as they are.                                *)
C17_LoadIdempotent ==
  [][\A uid \in UserIds, o \in MemoryOutcomes :
       (loadMemoriesSettles(uid, o) /\ dashPhase # "gone") =>
         /\ loadedMemories(memories', getUserMemories(o)) = memories'
         /\ chatMessages' = chatMessages]_vars

(* The load on mount and the reload after each of two answered sends have  *)
(* all settled, and the timeline holds the two memories of the service.    *)
C17_Witness ==
  /\ surface = "Dashboard" /\ dashPhase = "ready"
  /\ sendCount = 2 /\ sends = {}
  /\ Len(chatMessages) = 4
  /\ NoFetchPending /\ ~isLoadingMemories
  /\ memories = <<M1, M2>>

(* C18: no two entries of a list shown as timeline have the same id: the   *)
(* chat entries and the memories of the Dashboard, the messages of AIChat, *)
(* the memories of MemoryVisualization.                                    *)
C18_UniqueIds ==
  /\ NoDuplicateIds(chatMessages)
  /\ NoDuplicateIds(memories)
  /\ NoDuplicateIds(messages)
  /\ NoDuplicateIds(mvMemories)

(* C14: for every user id at most one loadMemories call is suspended at    *)
(* its await.                                                              *)
C14_OneFetchInFlight == \A uid \in UserIds : fetches[uid] <= 1

----------------------------------------------------------------------------
(* Claims about rateLimit (SpecRate) *)

SameKey(i, j) == log[i].key = log[j].key

(* Allowed calls of call i's key made before call i and less than a        *)
(* window before it.                                                       *)
AllowedInWindowBefore(i) ==
  {j \in 1 .. (i - 1) : SameKey(i, j) /\ log[j].ok /\ log[i].t - log[j].t < rlWindow}

(* Call i finds its key fresh: every earlier allowed call of the key is a  *)
(* full window old.                                                        *)
FreshAt(i) ==
  \A h \in 1 .. (i - 1) :
    (SameKey(h, i) /\ log[h].ok) => log[i].t - log[h].t >= rlWindow

CallsOfKeyBetween(i, j) == {m \in i .. j : SameKey(m, i)}

(* C7: every call, when it returns (it is the last entry of the log), is  *)
(* allowed iff fewer than max allowed calls of the same key fall within    *)
(* windowMs before it; so from a fresh key (never used, or every recorded  *)
(* call a full window old) exactly the first max calls made within a span  *)
(* shorter than windowMs return true and the later ones false. Calls under *)
(* other keys do not count. The log only grows, so holding in every state  *)
(* this holds of every call.                                               *)
C7_RateWindow ==
  Len(log) > 0 =>
    LET n == Len(log) IN
      /\ log[n].ok <=> (Cardinality(AllowedInWindowBefore(n)) < rlMax)
      /\ \A i \in 1 .. n :
           (SameKey(i, n) /\ FreshAt(i) /\ log[n].t - log[i].t < rlWindow)
             => (log[n].ok <=> (Cardinality(CallsOfKeyBetween(i, n)) <= rlMax))

(* Six calls of one key within a second with the default arguments: five   *)
(* allowed, the sixth refused; a seventh a full window later is allowed.   *)
C7_Witness ==
  /\ rlMax = DefaultMax /\ rlWindow = DefaultWindowMs
  /\ Len(log) = 7
  /\ \A i \in 1 .. 7 : SameKey(1, i)
  /\ log[6].t - log[1].t < 1000
  /\ \A i \in 1 .. 5 : log[i].ok
  /\ ~log[6].ok
  /\ log[7].t - log[5].t >= DefaultWindowMs
  /\ log[7].ok

----------------------------------------------------------------------------
(* Claims about the session store (SpecAuth) *)

StoredPair(s) == hasItem(s, "nova_user") /\ hasItem(s, "nova_token")

(* C8: a session that was authenticated and stored when the page was       *)
(* reloaded is, once the mount effect has run, held again with the same    *)
(* id, name, email and credential.                                         *)
C8_RehydrationRoundTrip ==
  (lastOp = "mount" /\ atRestart.stored /\ atRestart.user # NULL)
    => (/\ user # NULL
        /\ user.id = atRestart.user.id
        /\ user.name = atRestart.user.name
        /\ user.email = atRestart.user.email
        /\ token = atRestart.token
        /\ isAuthenticated)

(* C9: localStorage holds 'nova_user' iff it holds 'nova_token'.           *)
C9_StoragePair ==
  hasItem(storage, "nova_user") <=> hasItem(storage, "nova_token")

(* A sign-in has just written the pair while another request is pending.   *)
C9_Witness ==
  /\ lastOp = "resolved"
  /\ StoredPair(storage)
  /\ authReqs # {}

(* C10: when a login, signup or googleLogin has just resumed with the      *)
(* gateway's result, that user and token are the ones in memory, the ones  *)
(* localStorage gives back, and the session is authenticated.              *)
C10_SuccessStoresSession ==
  lastOp = "resolved" =>
    /\ user = lastResult.value.user
    /\ token = lastResult.value.token
    /\ StoredPair(storage)
    /\ JSONparses(storage["nova_user"])
    /\ JSONparse(storage["nova_user"]) = lastResult.value.user
    /\ storage["nova_token"] = lastResult.value.token
    /\ isAuthenticated

(* A sign-in as U2 has just replaced a stored session of U1.               *)
C10_Witness ==
  /\ lastOp = "resolved"
  /\ user = U2 /\ token = "t2"
  /\ atRestart.user = U1

(* C11: when a login, signup or googleLogin has just been rejected, the     *)
(* session holds no user and no token, in memory or in localStorage, and   *)
(* the caller was given the error the gateway threw.                       *)
C11_FailureEndsAnonymous ==
  lastOp = "rejected" =>
    /\ lastResult.thrown
    /\ user = NULL
    /\ token = NullToken
    /\ ~hasItem(storage, "nova_user")
    /\ ~hasItem(storage, "nova_token")

(* C12: when logout has just run, whatever the session was and whatever    *)
(* requests are pending, user and token are null and localStorage holds    *)
(* neither entry; logout makes no request and has no failing path.         *)
C12_LogoutClears ==
  lastOp = "logout" =>
    /\ user = NULL
    /\ token = NullToken
    /\ ~hasItem(storage, "nova_user")
    /\ ~hasItem(storage, "nova_token")
    /\ ~isAuthenticated

(* logout has just run after a successful sign-in, with another sign-in    *)
(* still pending.                                                          *)
C12_Witness ==
  /\ lastOp = "logout"
  /\ ~lastResult.thrown
  /\ lastResult.value # NULL
  /\ authReqs # {}
  /\ storage = EmptyStore

----------------------------------------------------------------------------
(* Claims about the input guard *)

ScriptClean ==
  <<"s", "c", "r", "i", "p", "t", "b", "a", "d", "/", "s", "c", "r", "i", "p", "t">>

(* C19: the text sanitizeInput returns holds no '<' and no '>', does not    *)
(* begin or end with whitespace and is at most LengthCap long; the input   *)
(* of the scenario gives "scriptbad/script".                               *)
C19_SanitizeClean ==
  guard.op = "sanitizeInput" =>
    LET clean == guard.clean IN
      /\ \A i \in DOMAIN clean : clean[i] \notin {"<", ">"}
      /\ clean # <<>> => (~IsSpace(clean[1]) /\ ~IsSpace(clean[Len(clean)]))
      /\ Len(clean) <= LengthCap
      /\ guard.text = ScriptInput => clean = ScriptClean

(* C20: a form submitted with an empty or whitespace-only email, password  *)
(* or reminder text is rejected, and the step records no timestamp: the    *)
(* map of the rate limiter and the list of its calls are as before.        *)
C20_BlankInputRejected ==
  [][/\ (/\ guard'.op = "authForm"
         /\ IsBlank(guard'.email) \/ IsBlank(guard'.password)
         /\ authFormSubmit(guard'.email, guard'.password)) =>
            /\ guard'.result # "submitted"
            /\ attempts' = attempts
            /\ log' = log
     /\ (/\ guard'.op = "reminder"
         /\ IsBlank(guard'.text)
         /\ reminderSubmit(guard'.text)) =>
            /\ guard'.result = "rejected"
            /\ attempts' = attempts
            /\ log' = log]_vars

(* A form with a valid email and a whitespace-only password has just been  *)
(* rejected while the window of that email holds a timestamp.              *)
C20_Witness ==
  /\ guard.op = "authForm"
  /\ guard.email = AnnEmail
  /\ IsBlank(guard.password) /\ guard.password # <<>>
  /\ guard.result = "Password must be 8+ chars with upper, lower, number"
  /\ Len(log) = 1
  /\ AnnEmail \in DOMAIN attempts
  /\ Len(attempts[AnnEmail]) = 1

----------------------------------------------------------------------------
(* Claims about the sign-up form (SpecSignup) *)

FailsLocalValidation(email, password) ==
  ~validateEmail(email) \/ ~validatePassword(password)

(* C21: a submission whose email is malformed or whose password is weak    *)
(* starts no request to the remote service: the handler returns before     *)
(* the network call.                                                       *)
C21_InvalidNeverSent ==
  [][(/\ guard'.op = "Signup.handleSubmit"
      /\ FailsLocalValidation(guard'.email, guard'.password)
      /\ signupHandleSubmit(guard'.name, guard'.email, guard'.password, guard'.confirm))
        => authReqs' = authReqs]_vars

----------------------------------------------------------------------------
(* Claims about the start of the process (SpecStart) *)

(* C22: when the page starts with exactly one of the two entries in        *)
(* localStorage, the mount effect leaves the session anonymous and keeps   *)
(* neither entry.                                                          *)
C22_PartialPairIsAbsent ==
  [][(Mount /\ PartialPair(storage)) =>
       /\ user' = NULL
       /\ token' = NullToken
       /\ ~hasItem(storage', "nova_user")
       /\ ~hasItem(storage', "nova_token")]_vars

(* The page was opened over a lone identity entry and has mounted.         *)
C22_Witness ==
  /\ lastOp = "mount"
  /\ atRestart.partial
  /\ phase = "mounted"
  /\ user = NULL /\ token = NullToken
  /\ storage = EmptyStore

----------------------------------------------------------------------------
(* Claims about the gateway (SpecGateway) *)

(* The coarse kind a failure belongs to.                                   *)
Kind(o) ==
  IF o.t = "transport" THEN "network"
  ELSE IF o.status \in {401, 403} THEN "auth"
  ELSE IF o.status >= 500 THEN "server"
  ELSE "client"

(* C23: every method turns every transport failure and every non-success   *)
(* status into a thrown error that carries one kind: the call fails, and   *)
(* the error it fails with is given to failures of that kind only.         *)
C23_FailuresCarryOneKind ==
  (gateway.stage = "settled" /\ gateway.outcome \in GatewayFailures) =>
    /\ gateway.thrown
    /\ \A o2 \in GatewayFailures :
         LET r2 == methodResult(gateway.method, o2) IN
           (r2.thrown /\ r2.error = gateway.error) => Kind(o2) = Kind(gateway.outcome)

IdentityMethods == {"sendChatMessage", "getUserMemories", "getCurrentUser"}

(* C24: a call of chat send, history fetch or current-user lookup made     *)
(* while the session holds a token goes to fetch with that token in its    *)
(* Authorization header.                                                   *)
C24_IdentityCallsCarryToken ==
  (gateway.stage = "sent" /\ gateway.method \in IdentityMethods /\ token # NullToken) =>
    /\ "Authorization" \in DOMAIN gateway.headers
    /\ gateway.headers["Authorization"] = <<"Bearer ", token>>

----------------------------------------------------------------------------
(* Claims about overlapping sends (SpecSurface) *)

CallsOf(list) == {list[i].call : i \in DOMAIN list}

(* C25: each surface has at most one send unresolved, and while one is     *)
(* unresolved no step starts another request or adds the entry of another  *)
(* call to the timeline.                                                   *)
C25_OneSendInFlight ==
  [][/\ Cardinality(sends') <= 1
     /\ Cardinality(aiReqs') <= 1
     /\ sends # {} =>
          /\ {r.call : r \in sends'} \subseteq {r.call : r \in sends}
          /\ CallsOf(chatMessages') \subseteq CallsOf(chatMessages)
     /\ aiReqs # {} =>
          /\ aiReqs' \subseteq aiReqs
          /\ CallsOf(messages') \subseteq CallsOf(messages)]_vars

(* The second send of the Dashboard is in flight, the first has its reply. *)
C25_Witness ==
  /\ surface = "Dashboard"
  /\ sendCount = 2
  /\ \E r \in sends : sends = {r} /\ r.call = 2
  /\ \E i \in DOMAIN chatMessages : chatMessages[i].call = 1 /\ ~chatMessages[i].isUser
  /\ \E i \in DOMAIN chatMessages : chatMessages[i].call = 2 /\ chatMessages[i].isUser

----------------------------------------------------------------------------
(* Claims about sign-out with a sign-in outstanding (SpecSwitch) *)

(* C26: when the step after logout is the settling of a sign-in request    *)
(* that was outstanding while logout ran, the session is still anonymous   *)
(* and localStorage still holds neither entry.                             *)
C26_LogoutStaysAnonymous ==
  [][(/\ lastOp = "logout"
      /\ authReqs' # authReqs
      /\ authReqs' \subseteq authReqs) =>
        /\ user' = NULL
        /\ token' = NullToken
        /\ ~hasItem(storage', "nova_user")
        /\ ~hasItem(storage', "nova_token")]_vars

----------------------------------------------------------------------------
(* Claims about memory and localStorage together (SpecAuth) *)

CompletedOps == {"mount", "resolved", "rejected", "logout"}

(* C27: when the mount effect, a sign-in of any kind (resolved or          *)
(* rejected) or logout has just completed, user and token are both set     *)
(* exactly when localStorage holds both entries, and then the stored       *)
(* identity and token are the ones in memory.                              *)
C27_MemoryMatchesStorage ==
  lastOp \in CompletedOps =>
    /\ (user # NULL) <=> (token # NullToken)
    /\ isAuthenticated <=>
         (hasItem(storage, "nova_user") /\ hasItem(storage, "nova_token"))
    /\ isAuthenticated =>
         /\ JSONparses(storage["nova_user"])
         /\ JSONparse(storage["nova_user"]) = user
         /\ storage["nova_token"] = token

(* A sign-in was rejected while the session of U2, signed in before it,    *)
(* is in memory and in localStorage, and another request is pending.       *)
C27_Witness ==
  /\ lastOp = "rejected"
  /\ user = U2 /\ token = "t2"
  /\ hasItem(storage, "nova_token") /\ storage["nova_token"] = "t2"
  /\ authReqs # {}

----------------------------------------------------------------------------
(* Claims about refused calls of the rate limiter (SpecRate) *)

StoredFor(key) == IF key \in DOMAIN attempts THEN attempts[key] ELSE <<>>

(* C28: a refused call leaves the map as it was; a call is refused only    *)
(* while the key holds max timestamps of which the oldest is less than     *)
(* windowMs old, and a call made when that oldest one is windowMs old is   *)
(* allowed, whatever was refused in between.                               *)
C28_RefusedRecordsNothing ==
  [][Len(log') = Len(log) + 1 =>
       LET e == log'[Len(log')]
           arr == StoredFor(e.key)
       IN /\ ~e.ok => attempts' = attempts
          /\ ~e.ok => (Len(arr) = rlMax /\ e.t - arr[1] < rlWindow)
          /\ (Len(arr) = rlMax /\ e.t - arr[1] >= rlWindow) => e.ok]_vars

(* A key was allowed max times at one instant, refused after that, and     *)
(* allowed again exactly windowMs after the allowed calls.                 *)
C28_Witness ==
  \E i, j, k \in DOMAIN log :
    /\ i < j /\ j < k
    /\ log[i].key = log[j].key /\ log[j].key = log[k].key
    /\ log[i].ok /\ ~log[j].ok /\ log[k].ok
    /\ log[j].t > log[i].t
    /\ log[k].t = log[i].t + rlWindow
    /\ Cardinality({h \in DOMAIN log : log[h].key = log[i].key /\ log[h].ok
                                        /\ log[h].t = log[i].t}) = rlMax

----------------------------------------------------------------------------
(* Claims about sanitizing twice (SpecSanitize) *)

(* C29: sanitizeInput applied to its own result gives that result again,   *)
(* so the text validateReminderText judges is the cleaned text itself.     *)
C29_SanitizeIdempotent ==
  guard.op = "sanitizeInput" => sanitizeInput(guard.clean) = guard.clean

----------------------------------------------------------------------------
(* Claims about the authenticating indicator (SpecAuth) *)

(* C30: isLoading is true exactly when a login, signup or googleLogin      *)
(* call is suspended at its await.                                         *)
C30_LoadingWhileOutstanding ==
  phase = "mounted" => (isLoading <=> authReqs # {})

============================================================================
